---- MODULE Spec2Model ----
(***************************************************************************)
(* md2conf: the Markdown pre-pass (list indentation normalizer and its two *)
(* window heuristics), the two pymdownx rendering hooks and the            *)
(* reset/normalize/convert pipeline of src/md2conf/markdown.py.            *)
(*                                                                         *)
(* A Python str is a sequence of characters, each a one-character string;  *)
(* a character that a TLA+ string literal cannot hold (a backtick, a       *)
(* control character other than \t \n \f \r, a character outside ASCII) is *)
(* written by its code point, "U+XXXX" with at least four upper-case       *)
(* hexadecimal digits.  The character classes are those of the Unicode     *)
(* database of CPython 3.11.  The strings of the fence formatter are TLA+  *)
(* strings joined with \o.  Python                                         *)
(* indices are 0-based: an operator that takes a Python index takes it     *)
(* 0-based and reads lines[index + 1].                                     *)
(***************************************************************************)
EXTENDS Naturals, Sequences, FiniteSets

VARIABLES
    \* _preprocess_list_indentation
    content,          \* the argument
    lines,            \* content.split('\n')
    i,                \* the loop index (lines already handled)
    in_admonition,
    in_code_block,
    processed_lines,
    result,           \* the returned text
    pc,               \* "start" | "loop" | "done" | "off"
    pass,             \* 1: the call on the input, 2: the call on its own output
    first,            \* the result of pass 1
    \* a direct call of one of the module's functions
    call,             \* the function and its arguments, or NoCall
    ret,              \* what it returned, or NoCall
    \* markdown_to_html on the module-level _CONVERTER
    engine,           \* what _CONVERTER holds from the documents it converted
    cpc,              \* per caller: "idle" | "reset" | "normalize" | "convert" |
                      \*             "converting" | "return"
    arg,              \* per caller: the content argument
    pre,              \* per caller: preprocessed_content
    seen,             \* per caller: engine as its convert found it
    since,            \* per caller: what converts put into engine since its reset
    steps,            \* per caller: the steps of its call so far
    log,              \* the calls that returned: content and html, in order
    calls             \* the calls made

normVars == <<content, lines, i, in_admonition, in_code_block,
              processed_lines, result, pc, pass, first>>

callVars == <<call, ret>>

engVars == <<engine, cpc, arg, pre, seen, since, steps, log, calls>>

vars == <<normVars, callVars, engVars>>

NoCall == [fn |-> "none"]

----------------------------------------------------------------------------
(* Python str methods *)

\* str.strip()/lstrip() with no argument strip whitespace: the characters for
\* which str.isspace() is true
Whitespace ==
    { "\t", "\n", "U+000B", "\f", "\r", "U+001C", "U+001D", "U+001E",
      "U+001F", " ", "U+0085", "U+00A0", "U+1680", "U+2000", "U+2001",
      "U+2002", "U+2003", "U+2004", "U+2005", "U+2006", "U+2007", "U+2008",
      "U+2009", "U+200A", "U+2028", "U+2029", "U+202F", "U+205F", "U+3000" }

RECURSIVE lstrip(_)
lstrip(s) ==
    IF s = <<>> THEN s
    ELSE IF Head(s) \in Whitespace THEN lstrip(Tail(s)) ELSE s

RECURSIVE rstrip(_)
rstrip(s) ==
    IF s = <<>> THEN s
    ELSE IF s[Len(s)] \in Whitespace THEN rstrip(SubSeq(s, 1, Len(s) - 1)) ELSE s

strip(s) == rstrip(lstrip(s))

\* s.strip(chars)
RECURSIVE strip_chars(_, _)
strip_chars(s, chars) ==
    IF s = <<>> THEN s
    ELSE IF Head(s) \in chars THEN strip_chars(Tail(s), chars)
    ELSE IF s[Len(s)] \in chars THEN strip_chars(SubSeq(s, 1, Len(s) - 1), chars)
    ELSE s

\* s.startswith(p)
startswith(s, p) == Len(s) >= Len(p) /\ SubSeq(s, 1, Len(p)) = p

\* s.startswith((p1, p2, ...))
startswith_any(s, ps) == \E p \in ps : startswith(s, p)

\* s[:n]
prefix(s, n) == SubSeq(s, 1, IF Len(s) < n THEN Len(s) ELSE n)

\* sub in s
contains(s, sub) ==
    \E k \in 1..Len(s) :
        k + Len(sub) - 1 <= Len(s) /\ SubSeq(s, k, k + Len(sub) - 1) = sub

\* the decimal digit characters (str.isdecimal()), by script: the k-th
\* character of a run has the value k - 1
DecimalRuns ==
    << <<"0", "1", "2", "3", "4", "5", "6", "7", "8", "9">>,
       <<"U+0660", "U+0661", "U+0662", "U+0663", "U+0664", "U+0665", "U+0666", "U+0667", "U+0668", "U+0669">>,
       <<"U+06F0", "U+06F1", "U+06F2", "U+06F3", "U+06F4", "U+06F5", "U+06F6", "U+06F7", "U+06F8", "U+06F9">>,
       <<"U+07C0", "U+07C1", "U+07C2", "U+07C3", "U+07C4", "U+07C5", "U+07C6", "U+07C7", "U+07C8", "U+07C9">>,
       <<"U+0966", "U+0967", "U+0968", "U+0969", "U+096A", "U+096B", "U+096C", "U+096D", "U+096E", "U+096F">>,
       <<"U+09E6", "U+09E7", "U+09E8", "U+09E9", "U+09EA", "U+09EB", "U+09EC", "U+09ED", "U+09EE", "U+09EF">>,
       <<"U+0A66", "U+0A67", "U+0A68", "U+0A69", "U+0A6A", "U+0A6B", "U+0A6C", "U+0A6D", "U+0A6E", "U+0A6F">>,
       <<"U+0AE6", "U+0AE7", "U+0AE8", "U+0AE9", "U+0AEA", "U+0AEB", "U+0AEC", "U+0AED", "U+0AEE", "U+0AEF">>,
       <<"U+0B66", "U+0B67", "U+0B68", "U+0B69", "U+0B6A", "U+0B6B", "U+0B6C", "U+0B6D", "U+0B6E", "U+0B6F">>,
       <<"U+0BE6", "U+0BE7", "U+0BE8", "U+0BE9", "U+0BEA", "U+0BEB", "U+0BEC", "U+0BED", "U+0BEE", "U+0BEF">>,
       <<"U+0C66", "U+0C67", "U+0C68", "U+0C69", "U+0C6A", "U+0C6B", "U+0C6C", "U+0C6D", "U+0C6E", "U+0C6F">>,
       <<"U+0CE6", "U+0CE7", "U+0CE8", "U+0CE9", "U+0CEA", "U+0CEB", "U+0CEC", "U+0CED", "U+0CEE", "U+0CEF">>,
       <<"U+0D66", "U+0D67", "U+0D68", "U+0D69", "U+0D6A", "U+0D6B", "U+0D6C", "U+0D6D", "U+0D6E", "U+0D6F">>,
       <<"U+0DE6", "U+0DE7", "U+0DE8", "U+0DE9", "U+0DEA", "U+0DEB", "U+0DEC", "U+0DED", "U+0DEE", "U+0DEF">>,
       <<"U+0E50", "U+0E51", "U+0E52", "U+0E53", "U+0E54", "U+0E55", "U+0E56", "U+0E57", "U+0E58", "U+0E59">>,
       <<"U+0ED0", "U+0ED1", "U+0ED2", "U+0ED3", "U+0ED4", "U+0ED5", "U+0ED6", "U+0ED7", "U+0ED8", "U+0ED9">>,
       <<"U+0F20", "U+0F21", "U+0F22", "U+0F23", "U+0F24", "U+0F25", "U+0F26", "U+0F27", "U+0F28", "U+0F29">>,
       <<"U+1040", "U+1041", "U+1042", "U+1043", "U+1044", "U+1045", "U+1046", "U+1047", "U+1048", "U+1049">>,
       <<"U+1090", "U+1091", "U+1092", "U+1093", "U+1094", "U+1095", "U+1096", "U+1097", "U+1098", "U+1099">>,
       <<"U+17E0", "U+17E1", "U+17E2", "U+17E3", "U+17E4", "U+17E5", "U+17E6", "U+17E7", "U+17E8", "U+17E9">>,
       <<"U+1810", "U+1811", "U+1812", "U+1813", "U+1814", "U+1815", "U+1816", "U+1817", "U+1818", "U+1819">>,
       <<"U+1946", "U+1947", "U+1948", "U+1949", "U+194A", "U+194B", "U+194C", "U+194D", "U+194E", "U+194F">>,
       <<"U+19D0", "U+19D1", "U+19D2", "U+19D3", "U+19D4", "U+19D5", "U+19D6", "U+19D7", "U+19D8", "U+19D9">>,
       <<"U+1A80", "U+1A81", "U+1A82", "U+1A83", "U+1A84", "U+1A85", "U+1A86", "U+1A87", "U+1A88", "U+1A89">>,
       <<"U+1A90", "U+1A91", "U+1A92", "U+1A93", "U+1A94", "U+1A95", "U+1A96", "U+1A97", "U+1A98", "U+1A99">>,
       <<"U+1B50", "U+1B51", "U+1B52", "U+1B53", "U+1B54", "U+1B55", "U+1B56", "U+1B57", "U+1B58", "U+1B59">>,
       <<"U+1BB0", "U+1BB1", "U+1BB2", "U+1BB3", "U+1BB4", "U+1BB5", "U+1BB6", "U+1BB7", "U+1BB8", "U+1BB9">>,
       <<"U+1C40", "U+1C41", "U+1C42", "U+1C43", "U+1C44", "U+1C45", "U+1C46", "U+1C47", "U+1C48", "U+1C49">>,
       <<"U+1C50", "U+1C51", "U+1C52", "U+1C53", "U+1C54", "U+1C55", "U+1C56", "U+1C57", "U+1C58", "U+1C59">>,
       <<"U+A620", "U+A621", "U+A622", "U+A623", "U+A624", "U+A625", "U+A626", "U+A627", "U+A628", "U+A629">>,
       <<"U+A8D0", "U+A8D1", "U+A8D2", "U+A8D3", "U+A8D4", "U+A8D5", "U+A8D6", "U+A8D7", "U+A8D8", "U+A8D9">>,
       <<"U+A900", "U+A901", "U+A902", "U+A903", "U+A904", "U+A905", "U+A906", "U+A907", "U+A908", "U+A909">>,
       <<"U+A9D0", "U+A9D1", "U+A9D2", "U+A9D3", "U+A9D4", "U+A9D5", "U+A9D6", "U+A9D7", "U+A9D8", "U+A9D9">>,
       <<"U+A9F0", "U+A9F1", "U+A9F2", "U+A9F3", "U+A9F4", "U+A9F5", "U+A9F6", "U+A9F7", "U+A9F8", "U+A9F9">>,
       <<"U+AA50", "U+AA51", "U+AA52", "U+AA53", "U+AA54", "U+AA55", "U+AA56", "U+AA57", "U+AA58", "U+AA59">>,
       <<"U+ABF0", "U+ABF1", "U+ABF2", "U+ABF3", "U+ABF4", "U+ABF5", "U+ABF6", "U+ABF7", "U+ABF8", "U+ABF9">>,
       <<"U+FF10", "U+FF11", "U+FF12", "U+FF13", "U+FF14", "U+FF15", "U+FF16", "U+FF17", "U+FF18", "U+FF19">>,
       <<"U+104A0", "U+104A1", "U+104A2", "U+104A3", "U+104A4", "U+104A5", "U+104A6", "U+104A7", "U+104A8", "U+104A9">>,
       <<"U+10D30", "U+10D31", "U+10D32", "U+10D33", "U+10D34", "U+10D35", "U+10D36", "U+10D37", "U+10D38", "U+10D39">>,
       <<"U+11066", "U+11067", "U+11068", "U+11069", "U+1106A", "U+1106B", "U+1106C", "U+1106D", "U+1106E", "U+1106F">>,
       <<"U+110F0", "U+110F1", "U+110F2", "U+110F3", "U+110F4", "U+110F5", "U+110F6", "U+110F7", "U+110F8", "U+110F9">>,
       <<"U+11136", "U+11137", "U+11138", "U+11139", "U+1113A", "U+1113B", "U+1113C", "U+1113D", "U+1113E", "U+1113F">>,
       <<"U+111D0", "U+111D1", "U+111D2", "U+111D3", "U+111D4", "U+111D5", "U+111D6", "U+111D7", "U+111D8", "U+111D9">>,
       <<"U+112F0", "U+112F1", "U+112F2", "U+112F3", "U+112F4", "U+112F5", "U+112F6", "U+112F7", "U+112F8", "U+112F9">>,
       <<"U+11450", "U+11451", "U+11452", "U+11453", "U+11454", "U+11455", "U+11456", "U+11457", "U+11458", "U+11459">>,
       <<"U+114D0", "U+114D1", "U+114D2", "U+114D3", "U+114D4", "U+114D5", "U+114D6", "U+114D7", "U+114D8", "U+114D9">>,
       <<"U+11650", "U+11651", "U+11652", "U+11653", "U+11654", "U+11655", "U+11656", "U+11657", "U+11658", "U+11659">>,
       <<"U+116C0", "U+116C1", "U+116C2", "U+116C3", "U+116C4", "U+116C5", "U+116C6", "U+116C7", "U+116C8", "U+116C9">>,
       <<"U+11730", "U+11731", "U+11732", "U+11733", "U+11734", "U+11735", "U+11736", "U+11737", "U+11738", "U+11739">>,
       <<"U+118E0", "U+118E1", "U+118E2", "U+118E3", "U+118E4", "U+118E5", "U+118E6", "U+118E7", "U+118E8", "U+118E9">>,
       <<"U+11950", "U+11951", "U+11952", "U+11953", "U+11954", "U+11955", "U+11956", "U+11957", "U+11958", "U+11959">>,
       <<"U+11C50", "U+11C51", "U+11C52", "U+11C53", "U+11C54", "U+11C55", "U+11C56", "U+11C57", "U+11C58", "U+11C59">>,
       <<"U+11D50", "U+11D51", "U+11D52", "U+11D53", "U+11D54", "U+11D55", "U+11D56", "U+11D57", "U+11D58", "U+11D59">>,
       <<"U+11DA0", "U+11DA1", "U+11DA2", "U+11DA3", "U+11DA4", "U+11DA5", "U+11DA6", "U+11DA7", "U+11DA8", "U+11DA9">>,
       <<"U+16A60", "U+16A61", "U+16A62", "U+16A63", "U+16A64", "U+16A65", "U+16A66", "U+16A67", "U+16A68", "U+16A69">>,
       <<"U+16AC0", "U+16AC1", "U+16AC2", "U+16AC3", "U+16AC4", "U+16AC5", "U+16AC6", "U+16AC7", "U+16AC8", "U+16AC9">>,
       <<"U+16B50", "U+16B51", "U+16B52", "U+16B53", "U+16B54", "U+16B55", "U+16B56", "U+16B57", "U+16B58", "U+16B59">>,
       <<"U+1D7CE", "U+1D7CF", "U+1D7D0", "U+1D7D1", "U+1D7D2", "U+1D7D3", "U+1D7D4", "U+1D7D5", "U+1D7D6", "U+1D7D7">>,
       <<"U+1D7D8", "U+1D7D9", "U+1D7DA", "U+1D7DB", "U+1D7DC", "U+1D7DD", "U+1D7DE", "U+1D7DF", "U+1D7E0", "U+1D7E1">>,
       <<"U+1D7E2", "U+1D7E3", "U+1D7E4", "U+1D7E5", "U+1D7E6", "U+1D7E7", "U+1D7E8", "U+1D7E9", "U+1D7EA", "U+1D7EB">>,
       <<"U+1D7EC", "U+1D7ED", "U+1D7EE", "U+1D7EF", "U+1D7F0", "U+1D7F1", "U+1D7F2", "U+1D7F3", "U+1D7F4", "U+1D7F5">>,
       <<"U+1D7F6", "U+1D7F7", "U+1D7F8", "U+1D7F9", "U+1D7FA", "U+1D7FB", "U+1D7FC", "U+1D7FD", "U+1D7FE", "U+1D7FF">>,
       <<"U+1E140", "U+1E141", "U+1E142", "U+1E143", "U+1E144", "U+1E145", "U+1E146", "U+1E147", "U+1E148", "U+1E149">>,
       <<"U+1E2F0", "U+1E2F1", "U+1E2F2", "U+1E2F3", "U+1E2F4", "U+1E2F5", "U+1E2F6", "U+1E2F7", "U+1E2F8", "U+1E2F9">>,
       <<"U+1E950", "U+1E951", "U+1E952", "U+1E953", "U+1E954", "U+1E955", "U+1E956", "U+1E957", "U+1E958", "U+1E959">>,
       <<"U+1FBF0", "U+1FBF1", "U+1FBF2", "U+1FBF3", "U+1FBF4", "U+1FBF5", "U+1FBF6", "U+1FBF7", "U+1FBF8", "U+1FBF9">> >>

DecimalDigits == { DecimalRuns[r][k] : r \in 1..Len(DecimalRuns), k \in 1..10 }

decimal_value(c) ==
    CHOOSE v \in 0..9 : \E r \in 1..Len(DecimalRuns) : DecimalRuns[r][v + 1] = c

\* the digit characters that are not decimal digits (superscripts, circled
\* digits, ...)
OtherDigits ==
    { "U+00B2", "U+00B3", "U+00B9", "U+1369", "U+136A", "U+136B", "U+136C",
      "U+136D", "U+136E", "U+136F", "U+1370", "U+1371", "U+19DA", "U+2070",
      "U+2074", "U+2075", "U+2076", "U+2077", "U+2078", "U+2079", "U+2080",
      "U+2081", "U+2082", "U+2083", "U+2084", "U+2085", "U+2086", "U+2087",
      "U+2088", "U+2089", "U+2460", "U+2461", "U+2462", "U+2463", "U+2464",
      "U+2465", "U+2466", "U+2467", "U+2468", "U+2474", "U+2475", "U+2476",
      "U+2477", "U+2478", "U+2479", "U+247A", "U+247B", "U+247C", "U+2488",
      "U+2489", "U+248A", "U+248B", "U+248C", "U+248D", "U+248E", "U+248F",
      "U+2490", "U+24EA", "U+24F5", "U+24F6", "U+24F7", "U+24F8", "U+24F9",
      "U+24FA", "U+24FB", "U+24FC", "U+24FD", "U+24FF", "U+2776", "U+2777",
      "U+2778", "U+2779", "U+277A", "U+277B", "U+277C", "U+277D", "U+277E",
      "U+2780", "U+2781", "U+2782", "U+2783", "U+2784", "U+2785", "U+2786",
      "U+2787", "U+2788", "U+278A", "U+278B", "U+278C", "U+278D", "U+278E",
      "U+278F", "U+2790", "U+2791", "U+2792", "U+10A40", "U+10A41", "U+10A42",
      "U+10A43", "U+10E60", "U+10E61", "U+10E62", "U+10E63", "U+10E64",
      "U+10E65", "U+10E66", "U+10E67", "U+10E68", "U+11052", "U+11053",
      "U+11054", "U+11055", "U+11056", "U+11057", "U+11058", "U+11059",
      "U+1105A", "U+1F100", "U+1F101", "U+1F102", "U+1F103", "U+1F104",
      "U+1F105", "U+1F106", "U+1F107", "U+1F108", "U+1F109", "U+1F10A" }

\* c.isdigit()
isdigit(c) == c \in DecimalDigits \/ c \in OtherDigits

\* ' ' * n
Spaces(n) == [k \in 1..n |-> " "]

\* s.split(sep), sep one character: always at least one piece
RECURSIVE split_from(_, _, _, _)
split_from(s, sep, k, cur) ==
    IF k > Len(s) THEN <<cur>>
    ELSE IF s[k] = sep THEN <<cur>> \o split_from(s, sep, k + 1, <<>>)
    ELSE split_from(s, sep, k + 1, Append(cur, s[k]))

split(s, sep) == split_from(s, sep, 1, <<>>)

\* '\n'.join(ls)
RECURSIVE join(_)
join(ls) ==
    IF ls = <<>> THEN <<>>
    ELSE IF Len(ls) = 1 THEN ls[1]
    ELSE ls[1] \o <<"\n">> \o join(Tail(ls))

----------------------------------------------------------------------------
(* The markers the normalizer looks for *)

\* U+0060, which a TLA+ string literal cannot hold: one character
Backtick == "U+0060"

BulletMarkers == { <<"*", " ">>, <<"-", " ">>, <<"+", " ">> }
FenceMarkers == { <<Backtick, Backtick, Backtick>>, <<"~", "~", "~">> }
AdmonitionMarker == <<"!", "!", "!">>
SpecialMarkers == { <<Backtick>>, <<"#">>, <<">">> }

\* len(line) - len(line.lstrip())
leading_spaces(line) == Len(line) - Len(lstrip(line))

\* not line.strip()
is_blank(line) == strip(line) = <<>>

\* line.strip().startswith((three backticks, '~~~'))
is_fence(line) == startswith_any(strip(line), FenceMarkers)

\* stripped.startswith(('* ', '- ', '+ '))
is_bullet(stripped) == startswith_any(stripped, BulletMarkers)

\* stripped and stripped[0].isdigit() and '. ' in stripped[:10]
is_numbered(stripped) ==
    /\ stripped # <<>>
    /\ isdigit(stripped[1])
    /\ contains(prefix(stripped, 10), <<".", " ">>)

----------------------------------------------------------------------------
(* _is_likely_2space_system(lines, current_index), current_index 0-based *)

Min(a, b) == IF a < b THEN a ELSE b

\* range(start, end) of the window, as 0-based indices
window_start(current_index) == IF current_index > 5 THEN current_index - 5 ELSE 0
\* the window reaching one line further down
window_end_one_more(ls, current_index) == Min(Len(ls), current_index + 6)

window_end(ls, current_index) == Min(Len(ls), current_index + 5)

window_range(ls, current_index) ==
    { k \in 0..(Len(ls) - 1) :
        window_start(current_index) <= k /\ k < window_end(ls, current_index) }

\* the indices whose leading-space count is appended to space_counts
counted_lines(ls, current_index) ==
    { k \in window_range(ls, current_index) :
        /\ strip(ls[k + 1]) # <<>>
        /\ is_bullet(lstrip(ls[k + 1]))
        /\ leading_spaces(ls[k + 1]) > 0 }

\* any(spaces % 4 != 0 for spaces in space_counts if spaces % 2 == 0)
has_2space_pattern(ls, ks) ==
    \E k \in ks :
        /\ leading_spaces(ls[k + 1]) % 2 = 0
        /\ leading_spaces(ls[k + 1]) % 4 # 0

_is_likely_2space_system(ls, current_index) ==
    IF counted_lines(ls, current_index) = {} THEN FALSE
    ELSE has_2space_pattern(ls, counted_lines(ls, current_index))

----------------------------------------------------------------------------
(* _is_list_continuation(lines, current_index), current_index 0-based *)

\* the loop over range(current_index - 1, max(-1, current_index - 5), -1),
\* entered at 0-based index k with n more indices to visit
RECURSIVE scan_back(_, _, _)
scan_back(ls, k, n) ==
    IF n = 0 THEN FALSE
    ELSE IF strip(ls[k + 1]) # <<>> /\ is_bullet(lstrip(ls[k + 1])) THEN TRUE
    ELSE IF strip(ls[k + 1]) # <<>> /\ leading_spaces(ls[k + 1]) = 0 THEN FALSE
    ELSE scan_back(ls, k - 1, n - 1)

_is_list_continuation(ls, current_index) ==
    IF current_index = 0 THEN FALSE
    ELSE scan_back(ls, current_index - 1, Min(current_index, 4))

----------------------------------------------------------------------------
(* The loop body of _preprocess_list_indentation *)

\* in_admonition after the check "no longer in an admonition"
admonition_after(line, in_adm) ==
    IF in_adm /\ leading_spaces(line) = 0 /\ lstrip(line) # <<>> THEN FALSE
    ELSE in_adm

\* the skip test without "or in_admonition"
skip_line_outside_only(line, in_adm) ==
    \/ leading_spaces(line) = 0
    \/ startswith_any(lstrip(line), SpecialMarkers)

\* "Skip lines that don't have indentation or are special syntax elements"
skip_line(line, in_adm) ==
    \/ leading_spaces(line) = 0
    \/ startswith_any(lstrip(line), SpecialMarkers)
    \/ in_adm

\* the condition under which a line is reindented
uses_2space_list(ls, idx) ==
    /\ leading_spaces(ls[idx + 1]) % 2 = 0
    /\ _is_likely_2space_system(ls, idx)
    /\ \/ is_bullet(lstrip(ls[idx + 1]))
       \/ is_numbered(lstrip(ls[idx + 1]))
       \/ _is_list_continuation(ls, idx)

\* one level deeper in place of twice as deep
reindented_one_level(line) ==
    Spaces(leading_spaces(line) + 2) \o lstrip(line)

\* new_indent + stripped
reindented(line) ==
    Spaces((leading_spaces(line) \div 2) * 4) \o lstrip(line)

\* which exit of the loop body line idx takes
Branch(ls, idx, in_adm, in_code) ==
    IF is_blank(ls[idx + 1]) THEN "blank"
    ELSE IF is_fence(ls[idx + 1]) THEN "fence"
    ELSE IF in_code THEN "code"
    ELSE IF startswith(lstrip(ls[idx + 1]), AdmonitionMarker) THEN "admonition"
    ELSE IF skip_line(ls[idx + 1], admonition_after(ls[idx + 1], in_adm)) THEN "skip"
    ELSE IF uses_2space_list(ls, idx) THEN "convert"
    ELSE "keep"

----------------------------------------------------------------------------
(* The shared engine and its callers *)

Callers == {"A", "B"}

\* _CONVERTER after reset(): nothing is held from earlier documents
FreshEngine == {}

\* the engine's variables while no caller exists
EngOff ==
    /\ engine = FreshEngine
    /\ cpc = [t \in Callers |-> "off"]
    /\ arg = [t \in Callers |-> <<>>]
    /\ pre = [t \in Callers |-> <<>>]
    /\ seen = [t \in Callers |-> FreshEngine]
    /\ since = [t \in Callers |-> FreshEngine]
    /\ steps = [t \in Callers |-> <<>>]
    /\ log = <<>>
    /\ calls = 0

----------------------------------------------------------------------------
(* Inputs *)

MaxLines == 4
MaxListLines == 6
MaxSpecialLines == 3
MaxEncodedLines == 3

L_blank == <<>>
L_text == <<"a">>
L_bullet2 == <<" ", " ", "-", " ", "a">>
L_bullet4 == <<" ", " ", " ", " ", "-", " ", "a">>
L_backticks == <<Backtick, Backtick, Backtick>>
L_tildes == <<"~", "~", "~">>
L_admonition == <<"!", "!", "!">>
L_text2 == <<" ", " ", "a">>
L_numbered2 == <<" ", " ", "1", ".", " ", "a">>
L_heading2 == <<" ", " ", "#", "a">>
L_bullet3 == <<" ", " ", " ", "-", " ", "a">>
L_fence2 == <<" ", " ", Backtick, Backtick, Backtick>>
L_text4 == <<" ", " ", " ", " ", "a">>
L_spaces == <<" ", " ">>
L_cr == <<"\r">>
L_text_cr == <<"a", "\r">>
L_admonition_cr == <<"!", "!", "!", "\r">>
L_bullet2_cr == <<" ", " ", "-", " ", "a", "\r">>
L_arabic2 == <<" ", " ", "U+0663", ".", " ", "a">>
L_tabs_bullet == <<"\t", "\t", "-", " ", "a">>

CoreLines == { L_text, L_bullet2, L_backticks, L_tildes, L_admonition }
ListLines == { L_bullet2, L_bullet4, L_text2 }
SpecialLines == { L_blank, L_bullet2, L_text2, L_numbered2, L_heading2, L_bullet3,
                  L_fence2, L_text4, L_spaces }
\* lines of a text with CRLF line ends, an ordinal in Arabic-Indic digits, a
\* bullet indented with tabs
EncodedLines == { L_cr, L_text_cr, L_admonition_cr, L_bullet2_cr, L_arabic2,
                  L_tabs_bullet }

SeqsUpTo(S, n) == UNION { [1..k -> S] : k \in 1..n }

Documents ==
    SeqsUpTo(CoreLines, MaxLines)
        \cup SeqsUpTo(ListLines, MaxListLines)
        \cup SeqsUpTo(SpecialLines, MaxSpecialLines)
        \cup SeqsUpTo(EncodedLines, MaxEncodedLines)

----------------------------------------------------------------------------
(* _preprocess_list_indentation as a state machine: one action per exit    *)
(* of the loop body                                                        *)

Init ==
    /\ content \in { join(d) : d \in Documents }
    /\ lines = <<>>
    /\ i = 0
    /\ in_admonition = FALSE
    /\ in_code_block = FALSE
    /\ processed_lines = <<>>
    /\ result = <<>>
    /\ pc = "start"
    /\ pass = 1
    /\ first = <<>>
    /\ call = NoCall
    /\ ret = NoCall
    /\ EngOff

Split ==
    /\ pc = "start"
    /\ lines' = split(content, "\n")
    /\ processed_lines' = <<>>
    /\ in_admonition' = FALSE
    /\ in_code_block' = FALSE
    /\ i' = 0
    /\ pc' = "loop"
    /\ UNCHANGED <<content, result, pass, first, callVars, engVars>>

\* one iteration of "for i, line in enumerate(lines)": the scan state after
\* line idx and the line appended to processed_lines
loop_step(ls, idx, in_adm, in_code, branch) ==
    [ in_code_block |-> IF branch = "fence" THEN ~in_code ELSE in_code,
      in_admonition |->
          IF branch = "admonition" THEN TRUE
          ELSE IF branch \in {"skip", "convert", "keep"}
               THEN admonition_after(ls[idx + 1], in_adm)
          ELSE in_adm,
      emitted |-> IF branch = "convert" THEN reindented(ls[idx + 1]) ELSE ls[idx + 1] ]

LoopBody ==
    /\ pc = "loop"
    /\ i < Len(lines)
    /\ \E branch \in {Branch(lines, i, in_admonition, in_code_block)} :
       \E st \in {loop_step(lines, i, in_admonition, in_code_block, branch)} :
          /\ in_code_block' = st.in_code_block
          /\ in_admonition' = st.in_admonition
          /\ processed_lines' = Append(processed_lines, st.emitted)
          /\ i' = i + 1
    /\ UNCHANGED <<content, lines, result, pc, pass, first, callVars, engVars>>

Join ==
    /\ pc = "loop"
    /\ i = Len(lines)
    /\ result' = join(processed_lines)
    /\ pc' = "done"
    /\ UNCHANGED <<content, lines, i, in_admonition, in_code_block,
                   processed_lines, pass, first, callVars, engVars>>

\* the caller hands the result back to the normalizer
NormalizeAgain ==
    /\ pc = "done"
    /\ pass = 1
    /\ content' = result
    /\ first' = result
    /\ pass' = 2
    /\ pc' = "start"
    /\ UNCHANGED <<lines, i, in_admonition, in_code_block, processed_lines, result,
                   callVars, engVars>>

Next ==
    \/ Split
    \/ LoopBody
    \/ Join
    \/ NormalizeAgain

Spec == Init /\ [][Next]_vars

----------------------------------------------------------------------------
(* _preprocess_list_indentation as a function of its argument *)

RECURSIVE run_loop(_, _, _, _, _)
run_loop(ls, idx, in_adm, in_code, out) ==
    IF idx = Len(ls) THEN out
    ELSE LET st == loop_step(ls, idx, in_adm, in_code, Branch(ls, idx, in_adm, in_code))
         IN  run_loop(ls, idx + 1, st.in_admonition, st.in_code_block,
                      Append(out, st.emitted))

_preprocess_list_indentation(text) ==
    join(run_loop(split(text, "\n"), 0, FALSE, FALSE, <<>>))

\* the normalizer's variables while another function is under check
NormOff ==
    /\ content = <<>>
    /\ lines = <<>>
    /\ i = 0
    /\ in_admonition = FALSE
    /\ in_code_block = FALSE
    /\ processed_lines = <<>>
    /\ result = <<>>
    /\ pc = "off"
    /\ pass = 1
    /\ first = <<>>

Returned(fn) == ret.fn = fn /\ ret.outcome = "returned"

----------------------------------------------------------------------------
(* _is_likely_2space_system called on a line array and an index *)

MaxHeurLines == 6

HeurLines == { L_blank, L_text, L_bullet2, L_bullet4 }

InitHeur ==
    /\ NormOff
    /\ EngOff
    /\ \E ls \in SeqsUpTo(HeurLines, MaxHeurLines) :
       \E idx \in 0..(Len(ls) - 1) :
          call = [fn |-> "_is_likely_2space_system", lines |-> ls, current_index |-> idx]
    /\ ret = NoCall

CallHeuristic ==
    /\ call.fn = "_is_likely_2space_system"
    /\ ret = NoCall
    /\ ret' = [fn |-> call.fn, outcome |-> "returned",
               value |-> _is_likely_2space_system(call.lines, call.current_index)]
    /\ UNCHANGED <<normVars, call, engVars>>

NextHeur == CallHeuristic

SpecHeur == InitHeur /\ [][NextHeur]_vars

----------------------------------------------------------------------------
(* _verbatim_formatter.  Its strings are TLA+ strings; an Optional         *)
(* argument is <<>> for None and <<v>> for a value v; classes is a list of *)
(* strings and attrs a dict, as the sequence of its <<key, value>> items   *)
(* in insertion order.                                                     *)

None == <<>>
Some(v) == <<v>>

\* sep.join(strs)
RECURSIVE join_str(_, _)
join_str(strs, sep) ==
    IF strs = <<>> THEN ""
    ELSE IF Len(strs) = 1 THEN strs[1]
    ELSE strs[1] \o sep \o join_str(Tail(strs), sep)

\* classes.append(css_class) in place of classes.insert(0, css_class)
final_classes_appended(css_class, classes) ==
    IF classes = None THEN <<css_class>> ELSE classes[1] \o <<css_class>>

\* classes after "if classes is None: ... else: classes.insert(0, css_class)"
final_classes(css_class, classes) ==
    IF classes = None THEN <<css_class>> ELSE <<css_class>> \o classes[1]

\* f' id="{id_value}"' if id_value else ""
html_id(id_value) == IF id_value # "" THEN " id=\"" \o id_value \o "\"" ELSE ""

\* ' class="{}"'.format(" ".join(classes))
html_class(classes) == " class=\"" \o join_str(classes, " ") \o "\""

\* " " + " ".join(f'{k}="{v}"' for k, v in attrs.items()) if attrs else ""
html_attrs(attrs) ==
    IF attrs # None /\ attrs[1] # <<>>
    THEN " " \o join_str([k \in 1..Len(attrs[1]) |->
                            attrs[1][k][1] \o "=\"" \o attrs[1][k][2] \o "\""], " ")
    ELSE ""

_verbatim_formatter(source, css_class, classes, id_value, attrs) ==
    "<div" \o html_id(id_value) \o html_class(final_classes(css_class, classes))
        \o html_attrs(attrs) \o ">" \o source \o "</div>"

FenceSources == { "x^2", "<b>&</b>" }
FenceCssClasses == { "arithmatex", "csf" }
FenceClasses == { None, Some(<<>>), Some(<<"c1">>), Some(<<"c1", "c2">>),
                  Some(<<"c2", "c1">>), Some(<<"csf">>) }
FenceIds == { "", "i1" }
FenceAttrs == { None, Some(<<>>), Some(<< <<"k1", "v1">> >>),
                Some(<< <<"k1", "v1">>, <<"k2", "v2">> >>),
                Some(<< <<"k2", "v2">>, <<"k1", "v1">> >>) }

InitFence ==
    /\ NormOff
    /\ EngOff
    /\ \E src \in FenceSources, css \in FenceCssClasses, cls \in FenceClasses,
          idv \in FenceIds, at \in FenceAttrs :
          call = [fn |-> "_verbatim_formatter", source |-> src, css_class |-> css,
                  classes |-> cls, id_value |-> idv, attrs |-> at]
    /\ ret = NoCall

CallFormatter ==
    /\ call.fn = "_verbatim_formatter"
    /\ ret = NoCall
    /\ ret' = [fn |-> call.fn, outcome |-> "returned",
               value |-> _verbatim_formatter(call.source, call.css_class, call.classes,
                                             call.id_value, call.attrs)]
    /\ UNCHANGED <<normVars, call, engVars>>

NextFence == CallFormatter

SpecFence == InitFence /\ [][NextFence]_vars

----------------------------------------------------------------------------
(* _emoji_generator.  shortname, alias and uc are sequences of characters; *)
(* the element's text and alt are sequences of Unicode code points, which  *)
(* is what chr() produces.  uc holds hexadecimal digits and hyphens only   *)
(* here: int() is modelled on those.                                       *)

HexDigit == {"0", "1", "2", "3", "4", "5", "6", "7", "8", "9",
             "a", "b", "c", "d", "e", "f", "A", "B", "C", "D", "E", "F"}

hex_digit_value(c) ==
    CASE c = "0" -> 0 [] c = "1" -> 1 [] c = "2" -> 2 [] c = "3" -> 3
      [] c = "4" -> 4 [] c = "5" -> 5 [] c = "6" -> 6 [] c = "7" -> 7
      [] c = "8" -> 8 [] c = "9" -> 9
      [] c \in {"a", "A"} -> 10 [] c \in {"b", "B"} -> 11 [] c \in {"c", "C"} -> 12
      [] c \in {"d", "D"} -> 13 [] c \in {"e", "E"} -> 14 [] c \in {"f", "F"} -> 15

\* the value of a digit in base 16: the ASCII hexadecimal digits and every
\* decimal digit character
IntDigits == HexDigit \cup DecimalDigits

int_digit_value(c) == IF c \in HexDigit THEN hex_digit_value(c) ELSE decimal_value(c)

\* the whitespace int() ignores around a literal: that of str.strip() without
\* the four ASCII separators U+001C .. U+001F
IntWhitespace == Whitespace \ {"U+001C", "U+001D", "U+001E", "U+001F"}

\* the literal without its sign
unsigned(t) == IF t # <<>> /\ Head(t) \in {"+", "-"} THEN Tail(t) ELSE t

\* the literal without the base prefix 0x or 0X and the underscore that may
\* follow it
unprefixed(t) ==
    IF Len(t) >= 2 /\ t[1] \in DecimalDigits /\ decimal_value(t[1]) = 0
                   /\ t[2] \in {"x", "X"}
    THEN IF Len(t) >= 3 /\ t[3] = "_" THEN SubSeq(t, 4, Len(t))
         ELSE SubSeq(t, 3, Len(t))
    ELSE t

\* the digits of the literal:
\* int(item, base=16) accepts digits with single underscores between them
int_body(item) == unprefixed(unsigned(strip_chars(item, IntWhitespace)))

\* int(item, base=16) raises ValueError
int16_raises(item) ==
    \E body \in {int_body(item)} :
        \/ body = <<>>
        \/ body[1] = "_"
        \/ body[Len(body)] = "_"
        \/ \E k \in 1..Len(body) : body[k] # "_" /\ body[k] \notin IntDigits
        \/ \E k \in 1..(Len(body) - 1) : body[k] = "_" /\ body[k + 1] = "_"

\* the values of the digits of a literal, without the underscores and the
\* leading zeros
RECURSIVE digits_of(_, _)
digits_of(body, leading) ==
    IF body = <<>> THEN <<>>
    ELSE IF Head(body) = "_" THEN digits_of(Tail(body), leading)
    ELSE IF leading /\ int_digit_value(Head(body)) = 0 THEN digits_of(Tail(body), TRUE)
    ELSE <<int_digit_value(Head(body))>> \o digits_of(Tail(body), FALSE)

\* int(item, base=16): a Python int has no bound, so it is kept as its sign
\* and its hexadecimal digits, the most significant first, none for zero
int16(item) ==
    [negative |-> \E t \in {strip_chars(item, IntWhitespace)} :
                      t # <<>> /\ Head(t) = "-",
     digits |-> digits_of(int_body(item), TRUE)]

\* the absolute value of an int of at most seven hexadecimal digits
RECURSIVE magnitude_from(_, _)
magnitude_from(digits, acc) ==
    IF digits = <<>> THEN acc
    ELSE magnitude_from(Tail(digits), acc * 16 + Head(digits))

magnitude(n) == magnitude_from(n.digits, 0)

\* n does not fit a C int: n >= 2^31 or n < -2^31
exceeds_c_int(n) ==
    \/ Len(n.digits) > 8
    \/ /\ Len(n.digits) = 8
       /\ IF n.negative
          THEN \/ n.digits[1] > 8
               \/ n.digits[1] = 8 /\ \E k \in 2..8 : n.digits[k] # 0
          ELSE n.digits[1] >= 8

\* the exception chr(n) raises, "none" when it returns: OverflowError when n
\* does not fit a C int, ValueError outside range(0x110000)
chr_error(n) ==
    IF exceeds_c_int(n) THEN "OverflowError"
    ELSE IF n.digits = <<>> THEN "none"
    ELSE IF n.negative \/ Len(n.digits) = 8 \/ magnitude(n) > 1114111 THEN "ValueError"
    ELSE "none"

chr_raises(n) == chr_error(n) # "none"

\* the exception chr(int(item, base=16)) raises, "none" when it returns
item_error(item) == IF int16_raises(item) THEN "ValueError" ELSE chr_error(int16(item))

\* the exception of the first item that raises, "none" when none does
RECURSIVE first_error(_)
first_error(items) ==
    IF items = <<>> THEN "none"
    ELSE IF item_error(Head(items)) # "none" THEN item_error(Head(items))
    ELSE first_error(Tail(items))

\* the exception "".join(chr(int(item, base=16)) for item in uc.split("-"))
\* raises, "none" when it returns
decode_error(uc) == first_error(split(uc, "-"))

decode_raises(uc) == decode_error(uc) # "none"

\* "".join(chr(int(item, base=16)) for item in uc.split("-")): the code points
decode(uc) == [k \in 1..Len(split(uc, "-")) |-> magnitude(int16(split(uc, "-")[k]))]

\* strips the colons of an alias only
emoji_name_alias_only(shortname, alias) ==
    IF alias # None /\ alias[1] # <<>> THEN strip_chars(alias[1], {":"}) ELSE shortname

\* (alias or shortname).strip(":")
emoji_name(shortname, alias) ==
    strip_chars(IF alias # None /\ alias[1] # <<>> THEN alias[1] ELSE shortname, {":"})

_emoji_generator(shortname, alias, uc, alt) ==
    IF uc # None
    THEN IF decode_raises(uc[1])
         THEN [outcome |-> decode_error(uc[1])]
         ELSE [outcome |-> "returned",
               value |-> [tag |-> "x-emoji",
                          attrib |-> [data_shortname |-> emoji_name(shortname, alias),
                                      data_unicode |-> uc[1]],
                          text |-> decode(uc[1])]]
    ELSE [outcome |-> "returned",
          value |-> [tag |-> "x-emoji",
                     attrib |-> [data_shortname |-> emoji_name(shortname, alias)],
                     text |-> alt]]

EmojiShortnames == { <<":", "s", ":">>, <<"s">>, <<":", "a", ":", "b", ":">> }
EmojiAliases == { None, Some(<<>>), Some(<<":", "t", ":">>), Some(<<"t">>) }
EmojiCodepoints ==
    { None, Some(<<"4", "1">>), Some(<<"1", "f", "6", "0", "4">>),
      Some(<<"1", "F", "1", "E", "9", "-", "1", "f", "1", "e", "a">>),
      Some(<<>>), Some(<<"4", "1", "-">>), Some(<<"1", "1", "0", "0", "0", "0">>),
      Some(<<"8", "0", "0", "0", "0", "0", "0", "0">>),
      Some(<<"4", "1", "-", "f", "f", "f", "f", "f", "f", "f", "f", "f">>),
      Some(<<" ", "0", "x", "4", "1", "-", "+", "1", "_", "f">>),
      Some(<<"U+0664", "U+0661">>), Some(<<"4", "_", "_", "1">>) }
EmojiAlts == { <<>>, <<58, 41>>, <<128516>> }

InitEmoji ==
    /\ NormOff
    /\ EngOff
    /\ \E sn \in EmojiShortnames, al \in EmojiAliases, cp \in EmojiCodepoints,
          at \in EmojiAlts :
          call = [fn |-> "_emoji_generator", shortname |-> sn, alias |-> al,
                  uc |-> cp, alt |-> at]
    /\ ret = NoCall

CallEmoji ==
    /\ call.fn = "_emoji_generator"
    /\ ret = NoCall
    /\ \E r \in {_emoji_generator(call.shortname, call.alias, call.uc, call.alt)} :
          ret' = IF r.outcome = "returned"
                 THEN [fn |-> call.fn, outcome |-> "returned", value |-> r.value]
                 ELSE [fn |-> call.fn, outcome |-> r.outcome]
    /\ UNCHANGED <<normVars, call, engVars>>

NextEmoji == CallEmoji

SpecEmoji == InitEmoji /\ [][NextEmoji]_vars

----------------------------------------------------------------------------
(* markdown_to_html.  _CONVERTER is python-markdown's Markdown object: it  *)
(* keeps state from a document (footnotes, references, stashed HTML) until *)
(* reset() is called, and what convert() returns depends on the text and   *)
(* on the state it starts from.  The engine is the set of marks            *)
(* [by, doc] its converts left since the last reset.                       *)

MaxCalls == 3

EngineDocs == { join(<<L_bullet2, L_bullet4>>), join(<<L_text>>) }

\* what convert(text) by caller t leaves in the engine
engine_after_convert(e, t, text) == e \cup {[by |-> t, doc |-> text]}

\* what convert(text) returns when it starts from engine state e
engine_output(e, text) == [residue |-> {m.doc : m \in e}, text |-> text]

InitEngine ==
    /\ NormOff
    /\ call = NoCall
    /\ ret = NoCall
    /\ engine = FreshEngine
    /\ cpc = [t \in Callers |-> "idle"]
    /\ arg = [t \in Callers |-> <<>>]
    /\ pre = [t \in Callers |-> <<>>]
    /\ seen = [t \in Callers |-> FreshEngine]
    /\ since = [t \in Callers |-> FreshEngine]
    /\ steps = [t \in Callers |-> <<>>]
    /\ log = <<>>
    /\ calls = 0

\* caller t calls markdown_to_html(c)
Enter(t, c) ==
    /\ cpc[t] = "idle"
    /\ calls < MaxCalls
    /\ calls' = calls + 1
    /\ arg' = [arg EXCEPT ![t] = c]
    /\ steps' = [steps EXCEPT ![t] = <<>>]
    /\ cpc' = [cpc EXCEPT ![t] = "reset"]
    /\ UNCHANGED <<normVars, callVars, engine, pre, seen, since, log>>

\* the same, by callers that wait for each other
EnterSerial(t, c) ==
    /\ \A u \in Callers : cpc[u] = "idle"
    /\ Enter(t, c)

\* the call without its _CONVERTER.reset()
ResetSkipped(t) ==
    /\ cpc[t] = "reset"
    /\ since' = [since EXCEPT ![t] = FreshEngine]
    /\ cpc' = [cpc EXCEPT ![t] = "normalize"]
    /\ UNCHANGED <<normVars, callVars, engine, arg, pre, seen, steps, log, calls>>

\* _CONVERTER.reset()
Reset(t) ==
    /\ cpc[t] = "reset"
    /\ engine' = FreshEngine
    /\ since' = [since EXCEPT ![t] = FreshEngine]
    /\ steps' = [steps EXCEPT ![t] = Append(@, "reset")]
    /\ cpc' = [cpc EXCEPT ![t] = "normalize"]
    /\ UNCHANGED <<normVars, callVars, arg, pre, seen, log, calls>>

\* preprocessed_content = _preprocess_list_indentation(content)
Normalize(t) ==
    /\ cpc[t] = "normalize"
    /\ pre' = [pre EXCEPT ![t] = _preprocess_list_indentation(arg[t])]
    /\ steps' = [steps EXCEPT ![t] = Append(@, "normalize")]
    /\ cpc' = [cpc EXCEPT ![t] = "convert"]
    /\ UNCHANGED <<normVars, callVars, engine, arg, seen, since, log, calls>>

\* _CONVERTER.convert(preprocessed_content) starts on the engine as it is
ConvertStart(t) ==
    /\ cpc[t] = "convert"
    /\ seen' = [seen EXCEPT ![t] = engine]
    /\ engine' = engine_after_convert(engine, t, pre[t])
    /\ since' = [u \in Callers |-> engine_after_convert(since[u], t, pre[t])]
    /\ steps' = [steps EXCEPT ![t] = Append(@, "convert")]
    /\ cpc' = [cpc EXCEPT ![t] = "converting"]
    /\ UNCHANGED <<normVars, callVars, arg, pre, log, calls>>

\* convert returns and markdown_to_html returns html
Return(t) ==
    /\ cpc[t] = "converting"
    /\ log' = Append(log, [by |-> t, content |-> arg[t],
                           html |-> engine_output(seen[t], pre[t])])
    /\ cpc' = [cpc EXCEPT ![t] = "idle"]
    /\ UNCHANGED <<normVars, callVars, engine, arg, pre, seen, since, steps, calls>>

\* callers one after another
NextSeq ==
    \/ \E t \in Callers, c \in EngineDocs : EnterSerial(t, c)
    \/ \E t \in Callers : Reset(t)
    \/ \E t \in Callers : Normalize(t)
    \/ \E t \in Callers : ConvertStart(t)
    \/ \E t \in Callers : Return(t)

SpecSeq == InitEngine /\ [][NextSeq]_vars

\* callers on their own threads, without a lock
NextConc ==
    \/ \E t \in Callers, c \in EngineDocs : Enter(t, c)
    \/ \E t \in Callers : Reset(t)
    \/ \E t \in Callers : Normalize(t)
    \/ \E t \in Callers : ConvertStart(t)
    \/ \E t \in Callers : Return(t)

SpecConc == InitEngine /\ [][NextConc]_vars

----------------------------------------------------------------------------
(* What the properties below speak about, stated over the input lines      *)
(* alone (1-based line numbers)                                            *)

\* the fence delimiter lines among the first k lines
FenceLinesUpTo(ls, k) == { m \in 1..k : ~is_blank(ls[m]) /\ is_fence(ls[m]) }

\* the scan is in a code block when it reaches line k: an odd number of fence
\* delimiter lines precede it
ScanInCode(ls, k) == Cardinality(FenceLinesUpTo(ls, k - 1)) % 2 = 1

\* line k is matched as an admonition opener
Opener(ls, k) ==
    /\ startswith(lstrip(ls[k]), AdmonitionMarker)
    /\ ~is_blank(ls[k])
    /\ ~is_fence(ls[k])
    /\ ~ScanInCode(ls, k)

\* line k ends an admonition body: non-blank, no leading whitespace, and
\* neither fenced code nor a fence delimiter
EndsAdmonition(ls, k) ==
    /\ leading_spaces(ls[k]) = 0
    /\ ~is_blank(ls[k])
    /\ ~is_fence(ls[k])
    /\ ~ScanInCode(ls, k)

\* line k lies in the body of the admonition opened at line j
InBodyOf(ls, j, k) ==
    /\ j < k
    /\ Opener(ls, j)
    /\ \A m \in (j + 1)..(k - 1) : ~EndsAdmonition(ls, m)

\* the scan is in an admonition when it decides about line k
ScanInAdmonition(ls, k) ==
    \/ Opener(ls, k)
    \/ \E j \in 1..(k - 1) : InBodyOf(ls, j, k) /\ ~EndsAdmonition(ls, k)

\* the kind of fence line k is: "backtick", "tilde" or "none"
FenceKind(line) ==
    IF is_blank(line) THEN "none"
    ELSE IF startswith(strip(line), <<Backtick, Backtick, Backtick>>) THEN "backtick"
    ELSE IF startswith(strip(line), <<"~", "~", "~">>) THEN "tilde"
    ELSE "none"

\* the kind of the fenced block open after the first k lines, a block being
\* closed only by a fence line of the kind that opened it
RECURSIVE OpenBlock(_, _)
OpenBlock(ls, k) ==
    IF k = 0 THEN "none"
    ELSE LET before == OpenBlock(ls, k - 1)
             kind == FenceKind(ls[k])
         IN  IF before = "none" THEN kind
             ELSE IF kind = before THEN "none"
             ELSE before

\* line k lies strictly between an opening fence and its matching closing fence
StrictlyInsideFence(ls, k) ==
    /\ OpenBlock(ls, k - 1) # "none"
    /\ FenceKind(ls[k]) # OpenBlock(ls, k - 1)
    /\ \E m \in (k + 1)..Len(ls) : FenceKind(ls[m]) = OpenBlock(ls, k - 1)

\* a bullet-marker line whose indentation is even and not a multiple of 4
TwoSpaceBullet(line) ==
    /\ ~is_blank(line)
    /\ is_bullet(lstrip(line))
    /\ leading_spaces(line) % 2 = 0
    /\ leading_spaces(line) % 4 # 0

\* the lines before..after around line k hold a two-space bullet
EvidenceAround(ls, k, before, after) ==
    \E m \in 1..Len(ls) : m + before >= k /\ m <= k + after /\ TwoSpaceBullet(ls[m])

\* the rewritten form of a line: twice its leading whitespace, as spaces
Doubled(line) == Spaces(2 * leading_spaces(line)) \o lstrip(line)

Emitted == 1..Len(processed_lines)

----------------------------------------------------------------------------
(* C1: normalizing the result of a normalization changes nothing:          *)
(* normalize(normalize(text)) = normalize(text) for every text.            *)
C1_Idempotent == (pc = "done" /\ pass = 2) => result = first

(* C2: every line strictly between a fence's opening line and its matching *)
(* closing line (backticks closed by backticks, tildes by tildes) is       *)
(* emitted unchanged.                                                      *)
C2_FencedUnchanged ==
    \A k \in Emitted : StrictlyInsideFence(lines, k) => processed_lines[k] = lines[k]

(* C3: after an admonition opener met outside a code block, every line     *)
(* with leading whitespace is emitted unchanged until the body ends at a   *)
(* non-blank line without leading whitespace; fence delimiters and fenced  *)
(* code inside the body, zero-indented code lines included, do not end it. *)
C3_AdmonitionContained ==
    \A k \in Emitted :
        ( /\ leading_spaces(lines[k]) > 0
          /\ \E j \in 1..(k - 1) : InBodyOf(lines, j, k) )
        => processed_lines[k] = lines[k]

\* an indented two-space bullet behind an opener and a fenced block, unchanged
C3_Witness ==
    \E k \in Emitted :
        /\ TwoSpaceBullet(lines[k])
        /\ ~ScanInCode(lines, k)
        /\ \E j \in 1..(k - 1) :
              /\ InBodyOf(lines, j, k)
              /\ FenceLinesUpTo(lines, k) \ FenceLinesUpTo(lines, j) # {}
        /\ processed_lines[k] = lines[k]

(* C4, as stated: a line indented by a positive multiple of 4 is emitted   *)
(* unchanged whatever lines are around it.                                 *)
C4_Original ==
    \A k \in Emitted :
        (leading_spaces(lines[k]) > 0 /\ leading_spaces(lines[k]) % 4 = 0)
        => processed_lines[k] = lines[k]

(* C4, amended: a line indented by a positive multiple of 4 is emitted     *)
(* unchanged when no bullet-marker line among the 5 lines before it, the   *)
(* line itself and the 4 lines after it is indented by an even number that *)
(* is not a multiple of 4.                                                 *)
C4_CanonicalKept ==
    \A k \in Emitted :
        ( /\ leading_spaces(lines[k]) > 0
          /\ leading_spaces(lines[k]) % 4 = 0
          /\ ~EvidenceAround(lines, k, 5, 4) )
        => processed_lines[k] = lines[k]

\* a 4-space bullet kept although a two-space bullet stands 5 lines below it
C4_Witness ==
    \E k \in Emitted :
        /\ pc = "done"
        /\ pass = 1
        /\ lines[k] = L_bullet4
        /\ k + 5 <= Len(lines)
        /\ TwoSpaceBullet(lines[k + 5])
        /\ ~EvidenceAround(lines, k, 5, 4)
        /\ processed_lines[k] = lines[k]

(* C5: the output has as many lines as the input; each output line is the  *)
(* input line or its doubled-indentation form, and it is the latter        *)
(* exactly when the line is non-blank, no fence delimiter, met outside     *)
(* code blocks and admonitions, indented by a positive even count, not     *)
(* starting with a backtick, # or >, the window heuristic holds at it, and *)
(* it is a bullet, an ordinal item or a list continuation.                 *)
RewriteCase(ls, k) ==
    /\ ~is_blank(ls[k])
    /\ ~is_fence(ls[k])
    /\ leading_spaces(ls[k]) > 0
    /\ leading_spaces(ls[k]) % 2 = 0
    /\ ~startswith_any(lstrip(ls[k]), SpecialMarkers)
    /\ \/ is_bullet(lstrip(ls[k]))
       \/ is_numbered(lstrip(ls[k]))
       \/ _is_list_continuation(ls, k - 1)
    /\ _is_likely_2space_system(ls, k - 1)
    /\ ~ScanInCode(ls, k)
    /\ ~ScanInAdmonition(ls, k)

C5_Result ==
    /\ \A k \in Emitted :
          processed_lines[k] = IF RewriteCase(lines, k) THEN Doubled(lines[k]) ELSE lines[k]
    /\ pc = "done" => Len(split(result, "\n")) = Len(split(content, "\n"))

\* a finished pass that doubled a 4-space line and kept an indented line
C5_Witness ==
    /\ pc = "done"
    /\ \E k \in Emitted :
          leading_spaces(lines[k]) = 4 /\ leading_spaces(processed_lines[k]) = 8
    /\ \E k \in Emitted :
          /\ leading_spaces(lines[k]) > 0
          /\ leading_spaces(lines[k]) % 2 = 0
          /\ ~ScanInCode(lines, k)
          /\ ~ScanInAdmonition(lines, k)
          /\ processed_lines[k] = lines[k]

(* C9: _is_likely_2space_system(lines, index) is true exactly when a       *)
(* non-blank bullet-marker line among the 5 lines before index, the line   *)
(* at index and the 5 lines after it is indented by an even count that is  *)
(* not a multiple of 4.                                                    *)
C9_WindowOfFive ==
    Returned("_is_likely_2space_system")
    => ret.value = EvidenceAround(call.lines, call.current_index + 1, 5, 5)

----------------------------------------------------------------------------
\* the concatenation of " " \o strs[k], in order
RECURSIVE EachAfterSpace(_)
EachAfterSpace(strs) ==
    IF strs = <<>> THEN "" ELSE " " \o Head(strs) \o EachAfterSpace(Tail(strs))

GivenOrEmpty(opt) == IF opt = None THEN <<>> ELSE opt[1]

(* C7: the formatter returns <div, an id attribute only for a non-empty    *)
(* id, a class attribute listing the configured css class first and then   *)
(* the caller's classes in their order, the attributes as key="value" in   *)
(* insertion order, then > the unmodified source </div>; source x^2 with   *)
(* class arithmatex and nothing else gives <div class="arithmatex">x^2</div>. *)
C7_Formatted ==
    Returned("_verbatim_formatter") =>
        /\ ret.value =
              "<div"
              \o (IF call.id_value = "" THEN "" ELSE " id=\"" \o call.id_value \o "\"")
              \o " class=\"" \o call.css_class
              \o EachAfterSpace(GivenOrEmpty(call.classes)) \o "\""
              \o EachAfterSpace([k \in 1..Len(GivenOrEmpty(call.attrs)) |->
                     GivenOrEmpty(call.attrs)[k][1] \o "=\""
                     \o GivenOrEmpty(call.attrs)[k][2] \o "\""])
              \o ">" \o call.source \o "</div>"
        /\ ( /\ call.source = "x^2"
             /\ call.css_class = "arithmatex"
             /\ call.classes = None
             /\ call.id_value = ""
             /\ call.attrs = None )
           => ret.value = "<div class=\"arithmatex\">x^2</div>"

\* a call with an id, two caller classes and two attributes has returned
C7_Witness ==
    /\ Returned("_verbatim_formatter")
    /\ call.id_value # ""
    /\ call.classes = Some(<<"c2", "c1">>)
    /\ call.attrs = Some(<< <<"k2", "v2">>, <<"k1", "v1">> >>)

----------------------------------------------------------------------------
RECURSIVE Pow16(_)
Pow16(n) == IF n = 0 THEN 1 ELSE 16 * Pow16(n - 1)

\* a token is a run of hexadecimal digits
HexToken(token) == token # <<>> /\ \A j \in 1..Len(token) : token[j] \in HexDigit

\* a token without its leading zeros
RECURSIVE Significant(_)
Significant(token) ==
    IF token # <<>> /\ Head(token) = "0" THEN Significant(Tail(token)) ELSE token

\* the number a hexadecimal token denotes: the sum of digit * 16^position
RECURSIVE TokenValue(_)
TokenValue(token) ==
    IF token = <<>> THEN 0
    ELSE hex_digit_value(Head(token)) * Pow16(Len(token) - 1) + TokenValue(Tail(token))

\* a token denotes a code point: a hexadecimal number up to 10FFFF
CodepointToken(token) ==
    /\ HexToken(token)
    /\ Len(Significant(token)) <= 6
    /\ TokenValue(Significant(token)) <= 1114111

\* uc is hyphen-delimited hexadecimal tokens, each a code point
WellFormedCodepoints(uc) ==
    \A k \in 1..Len(split(uc, "-")) : CodepointToken(split(uc, "-")[k])

\* what C8 says of data-unicode and of the text
UnicodeAndText(v) ==
    /\ call.uc # None =>
          /\ "data_unicode" \in DOMAIN v.attrib
          /\ v.attrib.data_unicode = call.uc[1]
          /\ Len(v.text) = Len(split(call.uc[1], "-"))
          /\ \A k \in 1..Len(v.text) :
                /\ CodepointToken(split(call.uc[1], "-")[k])
                /\ v.text[k] = TokenValue(Significant(split(call.uc[1], "-")[k]))
    /\ call.uc = None =>
          /\ v.text = call.alt
          /\ "data_unicode" \notin DOMAIN v.attrib

(* C8, as stated: data-shortname is the alias without its colon delimiters *)
(* when an alias is present and otherwise the shortname as given; with a   *)
(* codepoint string data-unicode is that string and the text the decoded   *)
(* characters; without one the text is the fallback and there is no        *)
(* data-unicode.                                                           *)
C8_Original ==
    Returned("_emoji_generator") =>
        /\ ret.value.attrib.data_shortname =
              IF call.alias # None THEN strip_chars(call.alias[1], {":"})
              ELSE call.shortname
        /\ UnicodeAndText(ret.value)

(* C8, amended: data-shortname is the alias when one is present and not    *)
(* empty and otherwise the shortname, in both cases without leading and    *)
(* trailing colons; the call returns whenever the codepoint string is      *)
(* absent or made of hyphen-delimited hexadecimal tokens that each denote  *)
(* a code point, and then data-unicode and the text are as stated.         *)
C8_Amended ==
    /\ ( /\ ret.fn = "_emoji_generator"
         /\ call.uc # None => WellFormedCodepoints(call.uc[1]) )
       => ret.outcome = "returned"
    /\ Returned("_emoji_generator") =>
          /\ ret.value.tag = "x-emoji"
          /\ ret.value.attrib.data_shortname =
                strip_chars(IF call.alias # None /\ call.alias[1] # <<>>
                            THEN call.alias[1] ELSE call.shortname, {":"})
          /\ (call.uc # None => WellFormedCodepoints(call.uc[1]))
                => UnicodeAndText(ret.value)

\* a colon-delimited shortname without alias, with two code points decoded
C8_Witness ==
    /\ Returned("_emoji_generator")
    /\ call.alias = None
    /\ call.shortname = <<":", "s", ":">>
    /\ call.alt # <<>>
    /\ ret.value.attrib.data_shortname = <<"s">>
    /\ ret.value.text = <<127465, 127466>>

----------------------------------------------------------------------------
Started(t) == cpc[t] = "converting"

(* C6: in calls made one after another, each call resets the engine, then  *)
(* normalizes, then converts, so its convert starts on the freshly reset   *)
(* engine; the html of a call depends on its content alone, and two calls  *)
(* with the same content return the same html whatever was converted in    *)
(* between.                                                                *)
C6_ResetBeforeConvert ==
    /\ \A t \in Callers :
          /\ cpc[t] = "convert" => (engine = FreshEngine /\ steps[t] = <<"reset", "normalize">>)
          /\ Started(t) => (seen[t] = FreshEngine
                            /\ steps[t] = <<"reset", "normalize", "convert">>)
    /\ \A a, b \in 1..Len(log) :
          log[a].content = log[b].content => log[a].html = log[b].html
    /\ \A a \in 1..Len(log) : log[a].html.residue = {}

\* the same content converted twice, by two callers, with another between
C6_Witness ==
    /\ Len(log) = 3
    /\ log[1].content = log[3].content
    /\ log[2].content # log[1].content
    /\ log[1].by # log[3].by

(* C10: with two callers and no lock, reset and convert of a call are not  *)
(* atomic: a convert can start on an engine that is not freshly reset      *)
(* (C10_Witness is such a state), and whatever a starting convert finds in *)
(* the engine was put there by another caller's convert after this         *)
(* caller's own reset.                                                     *)
C10_DirtyOnlyByOthers ==
    \A t \in Callers :
        Started(t) => \A m \in seen[t] : m.by # t /\ m \in since[t]

\* a convert has started on what another caller's convert left
C10_Witness ==
    \E t \in Callers :
        /\ Started(t)
        /\ seen[t] # FreshEngine
        /\ steps[t] = <<"reset", "normalize", "convert">>

====
